---- MODULE Spec2Model ----
(***************************************************************************)
(* Dual-SMA crossover backtester (src/main.cpp): calcSMA,                  *)
(* simulateWithCapitalRange, the (s, l) grid sweep of bruteForceAndAppend  *)
(* and its ranking comparator.                                             *)
(*                                                                         *)
(* Numbers.  Prices are positive integers, so every double the program     *)
(* forms from them (window sums, cash, shares * price) is an integer far   *)
(* below 2^53 and is exact.  An SMA entry sum / n is kept as the exact     *)
(* fraction num / den; two such fractions with denominators <= MAXN that   *)
(* differ, differ by far more than one ulp, so the sign of                 *)
(* smaS[i] - smaL[i] in doubles is the sign of the exact difference.       *)
(* Sequences are indexed from 0 as in the source, through At.              *)
(***************************************************************************)
EXTENDS Integers, Sequences, FiniteSets, TLC

\* ------------------------------------------------------------------ bounds
\* longest price series drawn from PriceVals
MaxLen == 5

\* const int MAXN = 256 in the source; the sweep is 1..MAXN x 1..MAXN
MAXN == 4

\* largest result set handed to the ranking on its own
MaxResults == 3

\* const double INITIAL = 10000.0
INITIAL == 10000

\* int topN = 20
topN == 20

\* 10000 buys 333 shares at 30 and keeps 10; it buys 1 share at 7000 and keeps
\* 3000, and after selling that share at 30 it can no longer afford 7000
PriceVals == {30, 7000}

\* the price series of the worked scenario
ScenarioPrices == <<10, 10, 10, 10, 20, 10, 10, 10, 10>>

PriceSeries == UNION {[1..n -> PriceVals] : n \in 0..MaxLen} \cup {ScenarioPrices}

\* periods and capitals of the result sets handed to the ranking on its own:
\* (2, 1) and (2, 3) tie on capital, spread and s
RankPeriods == 1..3

CapVals == {9000, 10000}

VARIABLES
    prices,      \* const vector<double>& prices / p
    period,      \* calcSMA: n
    sma,         \* calcSMA: the returned vector
    s, l,        \* short and long period of the current grid cell
    smaS, smaL,  \* simulateWithCapitalRange: the two SMA series
    argStart, argEnd,   \* the caller's startIdx and endIdx
    startIdx, endIdx,   \* the parameters, as the function rewrites them
    cash, shares, trades,
    i,           \* loop index of simulateWithCapitalRange
    ret,         \* SimResult returned by simulateWithCapitalRange
    lastOp,      \* branch taken by the latest per-index step
    log,         \* the trades made so far, in order: [op, idx]
    allSMA, results, bestCapital, bestS, bestL, rows,
    pc

vars == <<prices, argStart, argEnd, period, sma, s, l, smaS, smaL, startIdx, endIdx, cash, shares,
          trades, i, ret, lastOp, log, allSMA, results, bestCapital, bestS, bestL,
          rows, pc>>

\* ----------------------------------------------------------------- helpers
At(seq, k) == seq[k + 1]

Abs(x) == IF x < 0 THEN -x ELSE x

Min(a, b) == IF a < b THEN a ELSE b

Max(a, b) == IF a > b THEN a ELSE b

\* numeric_limits<double>::quiet_NaN()
NaN == [nan |-> TRUE, num |-> 0, den |-> 1]

\* the double sum / n, as the exact fraction
Quot(sum, n) == [nan |-> FALSE, num |-> sum, den |-> n]

IsNaN(x) == x.nan

\* a - b on doubles: NaN if either operand is NaN
Sub(a, b) ==
    IF a.nan \/ b.nan THEN NaN
    ELSE [nan |-> FALSE, num |-> a.num * b.den - b.num * a.den, den |-> a.den * b.den]

\* d < 0 and d > 0 on doubles: both false on NaN
Lt0(d) == ~d.nan /\ d.num < 0

Gt0(d) == ~d.nan /\ d.num > 0

\* ----------------------------------------------------------------- calcSMA
\* for (int i = 0; i < n; i++) sum += p[i];
RECURSIVE FirstWindow(_, _, _, _)
FirstWindow(p, n, k, sum) ==
    IF k >= n THEN sum ELSE FirstWindow(p, n, k + 1, sum + At(p, k))

SlideUpdate_dropNewest(p, n, k, sum) == sum + At(p, k) - At(p, k - n + 1)

\* sum += p[i] - p[i - n];
SlideUpdate(p, n, k, sum) == sum + At(p, k) - At(p, k - n)

\* for (int i = n; i < N; i++) { sum += p[i] - p[i - n]; sma[i] = sum / n; }
RECURSIVE SlideLoop(_, _, _, _, _)
SlideLoop(p, n, k, sum, out) ==
    IF k >= Len(p) THEN out
    ELSE LET sum2 == SlideUpdate(p, n, k, sum)
         IN SlideLoop(p, n, k + 1, sum2, [out EXCEPT ![k + 1] = Quot(sum2, n)])

calcSMA(p, n) ==
    LET N == Len(p)
        allNaN == [k \in 1..N |-> NaN]
    IN IF n < 1 \/ n > N THEN allNaN
       ELSE LET sum == FirstWindow(p, n, 0, 0)
            IN SlideLoop(p, n, n, sum, [allNaN EXCEPT ![n] = Quot(sum, n)])

\* ------------------------------------------------ simulateWithCapitalRange
SimResult(c, t) == [finalCapital |-> c, tradeCount |-> t]

EarlyReturn_strict(N, st, en) == N = 0 \/ Max(st, 0) > Min(en, N - 1)

\* lines 165-168: the two early returns, on the clamped indices
EarlyReturn(N, st, en) == N = 0 \/ Max(st, 0) >= Min(en, N - 1)

\* lines 166 and 170: startIdx clamped to >= 0, then forced to >= 1
NormStart(st) == Max(Max(st, 0), 1)

\* line 167: endIdx clamped to <= N - 1
NormEnd(N, en) == Min(en, N - 1)

isFirstDay_never(k, st) == FALSE

\* bool isFirstDay = (i == startIdx);
isFirstDay(k, st) == k = st

GoldenCross_weak(dPrev, dNow) == ~IsNaN(dPrev) /\ ~IsNaN(dNow) /\ dPrev.num <= 0 /\ dNow.num >= 0

GoldenCross_prevWeak(dPrev, dNow) == ~IsNaN(dPrev) /\ dPrev.num <= 0 /\ Gt0(dNow)

\* dPrev < 0 && dNow > 0
GoldenCross(dPrev, dNow) == Lt0(dPrev) /\ Gt0(dNow)

\* dPrev > 0 && dNow < 0
DeathCross(dPrev, dNow) == Gt0(dPrev) /\ Lt0(dNow)

buyShares_roundUp(c, price) == (c + price - 1) \div price

\* int buyShares = (int)(cash / prices[i]);   (cash >= 0, price > 0)
buyShares(c, price) == c \div price

SellCond_noPosition(sh, dPrev, dNow) == DeathCross(dPrev, dNow)

\* else if (shares > 0 && dPrev > 0 && dNow < 0)
SellCond(sh, dPrev, dNow) == sh > 0 /\ DeathCross(dPrev, dNow)

\* if (!isFirstDay && shares == 0 && dPrev < 0 && dNow > 0)
BuyCond(k, st, sh, dPrev, dNow) == ~isFirstDay(k, st) /\ sh = 0 /\ GoldenCross(dPrev, dNow)

\* lines 174-198: the body of the per-index loop, on state
\* [cash, shares, trades]; op names the branch taken
StepIndex(state, p, sS, sL, st, k) ==
    LET dPrev == Sub(At(sS, k - 1), At(sL, k - 1))
        dNow == Sub(At(sS, k), At(sL, k))
    IN IF IsNaN(dPrev) \/ IsNaN(dNow) THEN [state EXCEPT !.op = "skip"]
       ELSE IF BuyCond(k, st, state.shares, dPrev, dNow)
            THEN LET b == buyShares(state.cash, At(p, k))
                 IN IF b > 0
                    THEN [cash |-> state.cash - b * At(p, k),
                          shares |-> state.shares + b,
                          trades |-> state.trades + 1,
                          op |-> "buy"]
                    ELSE [state EXCEPT !.op = "nobuy"]
       ELSE IF SellCond(state.shares, dPrev, dNow)
            THEN [cash |-> state.cash + state.shares * At(p, k),
                  shares |-> 0,
                  trades |-> state.trades + 1,
                  op |-> "sell"]
       ELSE [state EXCEPT !.op = "none"]

Liquidate_noCount(state, p, en) ==
    IF state.shares > 0
    THEN [cash |-> state.cash + state.shares * At(p, en), shares |-> 0,
          trades |-> state.trades, op |-> "forced"]
    ELSE [state EXCEPT !.op = "return"]

\* lines 201-206: forced sale of an open position at prices[endIdx]
Liquidate(state, p, en) ==
    IF state.shares > 0
    THEN [cash |-> state.cash + state.shares * At(p, en), shares |-> 0,
          trades |-> state.trades + 1, op |-> "forced"]
    ELSE [state EXCEPT !.op = "return"]

\* for (int i = startIdx; i <= endIdx; ++i) { ... }
RECURSIVE RunLoop(_, _, _, _, _, _, _)
RunLoop(state, p, sS, sL, st, en, k) ==
    IF k > en THEN state
    ELSE RunLoop(StepIndex(state, p, sS, sL, st, k), p, sS, sL, st, en, k + 1)

InitState == [cash |-> INITIAL, shares |-> 0, trades |-> 0, op |-> "init"]

simulateWithCapitalRange(p, sS, sL, st, en) ==
    LET N == Len(p)
    IN IF EarlyReturn(N, st, en) THEN SimResult(INITIAL, 0)
       ELSE LET st1 == NormStart(st)
                en1 == NormEnd(N, en)
                fin == Liquidate(RunLoop(InitState, p, sS, sL, st1, en1, st1), p, en1)
            IN SimResult(fin.cash, fin.trades)

\* ----------------------------------------------------- bruteForceAndAppend
BruteResult(a, b, c, t) == [s |-> a, l |-> b, finalCapital |-> c, trades |-> t]

NextCell_upperTriangle(a, b) == IF b < MAXN THEN <<a, b + 1>> ELSE <<a + 1, a + 1>>

\* for (s = 1..MAXN) for (l = 1..MAXN): the cell visited after (a, b)
NextCell(a, b) == IF b < MAXN THEN <<a, b + 1>> ELSE <<a + 1, 1>>

comp_spreadAscending(a, b) ==
    IF a.finalCapital # b.finalCapital THEN a.finalCapital > b.finalCapital
    ELSE IF Abs(a.s - a.l) # Abs(b.s - b.l) THEN Abs(a.s - a.l) < Abs(b.s - b.l)
    ELSE IF a.s # b.s THEN a.s < b.s
    ELSE a.l < b.l

\* lines 283-295: the comparator handed to std::sort
comp(a, b) ==
    IF a.finalCapital # b.finalCapital THEN a.finalCapital > b.finalCapital
    ELSE LET da == Abs(a.s - a.l)
             db == Abs(b.s - b.l)
         IN IF da # db THEN da > db
            ELSE IF a.s # b.s THEN a.s < b.s
            ELSE a.l < b.l

\* std::sort(results.begin(), results.end(), comp), as an insertion sort that
\* consults nothing but comp
RECURSIVE InsertSorted(_, _)
InsertSorted(x, seq) ==
    IF seq = <<>> THEN <<x>>
    ELSE IF comp(x, Head(seq)) THEN <<x>> \o seq
    ELSE <<Head(seq)>> \o InsertSorted(x, Tail(seq))

RECURSIVE SortResults(_)
SortResults(seq) ==
    IF seq = <<>> THEN <<>> ELSE InsertSorted(Head(seq), SortResults(Tail(seq)))

\* lines 300-309 and 319-341: the first topN ranked entries with their rank
\* (the percentage and the text formatting belong to the output sink)
TopRows(ranked) ==
    [k \in 1..Min(topN, Len(ranked)) |->
        [rank |-> k, s |-> ranked[k].s, l |-> ranked[k].l,
         finalCapital |-> ranked[k].finalCapital, trades |-> ranked[k].trades]]

\* ------------------------------------------------------------ idle values
NoResult == [finalCapital |-> -1, tradeCount |-> -1]

SimIdle ==
    /\ smaS = <<>> /\ smaL = <<>>
    /\ cash = INITIAL /\ shares = 0 /\ trades = 0 /\ i = 0
    /\ ret = NoResult /\ lastOp = "init" /\ log = <<>>

GridIdle ==
    /\ allSMA = <<>> /\ results = <<>>
    /\ bestCapital = -1 /\ bestS = -1 /\ bestL = -1 /\ rows = <<>>

SmaIdle == period = 0 /\ sma = <<>>

simVars == <<smaS, smaL, cash, shares, trades, i, ret, lastOp, log>>

gridVars == <<allSMA, results, bestCapital, bestS, bestL, rows>>

smaVars == <<period, sma>>

\* --------------------------------------------- specification: calcSMA alone
InitSMA ==
    /\ prices \in PriceSeries
    /\ period \in -1..(MaxLen + 1)
    /\ sma = <<>>
    /\ s = 1 /\ l = 1 /\ startIdx = 0 /\ endIdx = 0
    /\ argStart = 0 /\ argEnd = 0
    /\ SimIdle /\ GridIdle
    /\ pc = "sma"

CallCalcSMA ==
    /\ pc = "sma"
    /\ sma' = calcSMA(prices, period)
    /\ pc' = "done"
    /\ UNCHANGED <<prices, argStart, argEnd, period, s, l, startIdx, endIdx, simVars, gridVars>>

NextSMA == CallCalcSMA

SpecSMA == InitSMA /\ [][NextSMA]_vars

\* ------------------------------ specification: one simulateWithCapitalRange
InitSim ==
    /\ prices \in PriceSeries
    /\ s \in 1..MAXN /\ l \in 1..MAXN
    /\ smaS = calcSMA(prices, s) /\ smaL = calcSMA(prices, l)
    /\ startIdx \in -1..(Len(prices) + 1)
    /\ endIdx \in -1..(Len(prices) + 1)
    /\ argStart = startIdx /\ argEnd = endIdx
    /\ cash = INITIAL /\ shares = 0 /\ trades = 0 /\ i = 0
    /\ ret = NoResult /\ lastOp = "init" /\ log = <<>>
    /\ SmaIdle /\ GridIdle
    /\ pc = "entry"

\* lines 164-170
SimCall ==
    /\ pc = "entry"
    /\ LET N == Len(prices)
       IN IF EarlyReturn(N, startIdx, endIdx)
          THEN /\ startIdx' = (IF N = 0 THEN startIdx ELSE Max(startIdx, 0))
               /\ endIdx' = (IF N = 0 THEN endIdx ELSE NormEnd(N, endIdx))
               /\ ret' = SimResult(INITIAL, 0)
               /\ pc' = "done"
               /\ i' = i
          ELSE /\ startIdx' = NormStart(startIdx)
               /\ endIdx' = NormEnd(N, endIdx)
               /\ i' = NormStart(startIdx)
               /\ pc' = "loop"
               /\ ret' = ret
    /\ UNCHANGED <<prices, argStart, argEnd, s, l, smaS, smaL, cash, shares, trades, lastOp, log,
                   smaVars, gridVars>>

\* lines 172-199: one iteration of the loop
SimStep ==
    /\ pc = "loop"
    /\ i <= endIdx
    /\ LET cur == [cash |-> cash, shares |-> shares, trades |-> trades, op |-> lastOp]
           nxt == StepIndex(cur, prices, smaS, smaL, startIdx, i)
       IN /\ cash' = nxt.cash
          /\ shares' = nxt.shares
          /\ trades' = nxt.trades
          /\ lastOp' = nxt.op
          /\ log' = IF nxt.op \in {"buy", "sell"}
                    THEN Append(log, [op |-> nxt.op, idx |-> i])
                    ELSE log
    /\ i' = i + 1
    /\ UNCHANGED <<prices, argStart, argEnd, s, l, smaS, smaL, startIdx, endIdx, ret, pc,
                   smaVars, gridVars>>

\* lines 201-208
SimReturn ==
    /\ pc = "loop"
    /\ i > endIdx
    /\ LET cur == [cash |-> cash, shares |-> shares, trades |-> trades, op |-> lastOp]
           fin == Liquidate(cur, prices, endIdx)
       IN /\ cash' = fin.cash
          /\ shares' = fin.shares
          /\ trades' = fin.trades
          /\ lastOp' = fin.op
          /\ log' = IF fin.op = "forced"
                    THEN Append(log, [op |-> "forced", idx |-> endIdx])
                    ELSE log
          /\ ret' = SimResult(fin.cash, fin.trades)
    /\ pc' = "done"
    /\ UNCHANGED <<prices, argStart, argEnd, s, l, smaS, smaL, startIdx, endIdx, i, smaVars, gridVars>>

NextSim == SimCall \/ SimStep \/ SimReturn

SpecSim == InitSim /\ [][NextSim]_vars

\* -------------------------------- specification: one bruteForceAndAppend
InitGrid ==
    /\ prices \in PriceSeries
    /\ startIdx \in -1..(Len(prices) + 1)
    /\ endIdx \in -1..(Len(prices) + 1)
    /\ argStart = startIdx /\ argEnd = endIdx
    /\ s = 1 /\ l = 1
    /\ GridIdle /\ SimIdle /\ SmaIdle
    /\ pc = "precompute"

\* lines 247-256
Precompute ==
    /\ pc = "precompute"
    /\ allSMA' = [n \in 1..MAXN |-> calcSMA(prices, n)]
    /\ pc' = "grid"
    /\ UNCHANGED <<prices, argStart, argEnd, s, l, startIdx, endIdx, results, bestCapital, bestS,
                   bestL, rows, simVars, smaVars>>

\* lines 259-273: one cell of the double loop.  bestCapital starts at -1e18,
\* below every capital the simulation returns; -1 stands for it.
GridCell ==
    /\ pc = "grid"
    /\ s <= MAXN
    /\ LET sr == simulateWithCapitalRange(prices, allSMA[s], allSMA[l], startIdx, endIdx)
       IN /\ results' = Append(results, BruteResult(s, l, sr.finalCapital, sr.tradeCount))
          /\ IF sr.finalCapital > bestCapital
             THEN bestCapital' = sr.finalCapital /\ bestS' = s /\ bestL' = l
             ELSE UNCHANGED <<bestCapital, bestS, bestL>>
    /\ s' = NextCell(s, l)[1]
    /\ l' = NextCell(s, l)[2]
    /\ UNCHANGED <<prices, argStart, argEnd, startIdx, endIdx, allSMA, rows, pc, simVars, smaVars>>

\* lines 281-341: sort, then report the first topN
RankAndReport ==
    /\ pc = "grid"
    /\ s > MAXN
    /\ results' = SortResults(results)
    /\ rows' = TopRows(SortResults(results))
    /\ pc' = "done"
    /\ UNCHANGED <<prices, argStart, argEnd, s, l, startIdx, endIdx, allSMA, bestCapital, bestS,
                   bestL, simVars, smaVars>>

NextGrid == Precompute \/ GridCell \/ RankAndReport

SpecGrid == InitGrid /\ [][NextGrid]_vars

\* ------------------------ specification: the ranking of any result set
RankCells == (RankPeriods \X RankPeriods) \X CapVals

RankInputs ==
    UNION {{q \in [1..n -> RankCells] :
               \A a, b \in 1..n : a # b => q[a][1] # q[b][1]} : n \in 0..MaxResults}

InitRank ==
    /\ \E q \in RankInputs :
          results = [k \in 1..Len(q) |-> BruteResult(q[k][1][1], q[k][1][2], q[k][2], 0)]
    /\ prices = <<>> /\ startIdx = 0 /\ endIdx = 0
    /\ argStart = 0 /\ argEnd = 0
    /\ s = MAXN + 1 /\ l = 1
    /\ allSMA = <<>> /\ bestCapital = -1 /\ bestS = -1 /\ bestL = -1 /\ rows = <<>>
    /\ SimIdle /\ SmaIdle
    /\ pc = "grid"

NextRank == RankAndReport

SpecRank == InitRank /\ [][NextRank]_vars

\* ================================================================== claims
\* sum of p[lo..hi], computed from scratch
RECURSIVE WindowSum(_, _, _)
WindowSum(p, lo, hi) == IF lo > hi THEN 0 ELSE At(p, hi) + WindowSum(p, lo, hi - 1)

\* smaS[k] - smaL[k] of the running simulation
DiffAt(k) == Sub(At(smaS, k), At(smaL, k))

GoldenAt(k) == Lt0(DiffAt(k - 1)) /\ Gt0(DiffAt(k))

DeathAt(k) == Gt0(DiffAt(k - 1)) /\ Lt0(DiffAt(k))

UndefinedAt(k) == IsNaN(DiffAt(k - 1)) \/ IsNaN(DiffAt(k))

InLoopStep == pc = "loop" /\ i <= endIdx

\* C1: the per-index step at the loop index equal to the normalized startIdx
\* never buys, golden cross or not: cash, shares and tradeCount are the same
\* after that step as before it.
C1_NoBuyAtStart ==
    [][(InLoopStep /\ i = startIdx)
         => (cash' = cash /\ shares' = shares /\ trades' = trades /\ log' = log)]_vars

\* the step at startIdx has run, a golden cross held there, nothing was bought
C1_Witness ==
    /\ pc = "loop" /\ i = startIdx + 1
    /\ GoldenAt(startIdx)
    /\ lastOp = "none" /\ shares = 0 /\ trades = 0 /\ cash = INITIAL

\* C2: when the loop ends with shares > 0, the returned finalCapital is the
\* loop-end cash plus shares * prices[endIdx], the returned tradeCount is the
\* loop-end count plus 1, and no position survives the return.
C2_ForcedLiquidation ==
    /\ [](pc = "done" => shares = 0)
    /\ [][(pc = "loop" /\ i > endIdx /\ shares > 0)
            => /\ ret' = SimResult(cash + shares * At(prices, endIdx), trades + 1)
               /\ shares' = 0
               /\ pc' = "done"]_vars

\* a run that ended with a forced sale, the caller's endIdx beyond the series
C2_Witness ==
    /\ pc = "done" /\ lastOp = "forced"
    /\ argEnd > Len(prices) - 1 /\ endIdx = Len(prices) - 1
    /\ ret.tradeCount = trades /\ ret.finalCapital = cash /\ trades >= 2

\* the range is empty after clamping, or there are no prices
Degenerate ==
    \/ Len(prices) = 0
    \/ Max(argStart, 0) >= Min(argEnd, Len(prices) - 1)

\* C3: an empty price series, or startIdx >= endIdx after clamping, returns
\* exactly (INITIAL, 0) straight from the entry, with no per-index step.
C3_DegenerateRange ==
    /\ []((pc = "done" /\ Degenerate)
            => (ret = SimResult(INITIAL, 0) /\ i = 0 /\ lastOp = "init" /\ log = <<>>))
    /\ [][(pc = "entry" /\ Degenerate)
            => (pc' = "done" /\ ret' = SimResult(INITIAL, 0)
                /\ cash' = INITIAL /\ shares' = 0 /\ trades' = 0)]_vars

\* returned early with a negative endIdx and a startIdx beyond the series
C3_Witness ==
    /\ pc = "done" /\ Len(prices) > 0
    /\ argEnd < 0 /\ argStart > Len(prices) - 1
    /\ ret = SimResult(INITIAL, 0)

Flat(p) == Len(p) > 0 /\ \A k \in 1..Len(p) : p[k] = p[1]

\* C5: on a constant price series no index buys or sells, whatever the
\* periods and the range: tradeCount = 0 and finalCapital = INITIAL exactly.
C5_FlatSeries ==
    Flat(prices)
      => /\ trades = 0 /\ shares = 0 /\ cash = INITIAL /\ log = <<>>
         /\ lastOp \in {"init", "skip", "none", "return"}
         /\ pc = "done" => ret = SimResult(INITIAL, 0)

\* a flat series whose loop went through indices where both SMAs are defined
C5_Witness ==
    /\ Flat(prices) /\ pc = "done" /\ lastOp = "return"
    /\ s # l /\ i > startIdx + 1
    /\ ~UndefinedAt(endIdx) /\ ~UndefinedAt(endIdx - 1)
    /\ ret = SimResult(INITIAL, 0)

\* C7: calcSMA returns a sequence as long as the prices; for n < 1 or n > N
\* every entry is undefined; otherwise entries 0..n-2 are undefined and entry
\* i >= n-1 is the arithmetic mean of p[i-n+1..i].
C7_WindowedAverage ==
    pc = "done"
      => LET N == Len(prices)
         IN /\ Len(sma) = N
            /\ (period < 1 \/ period > N) => \A k \in 0..(N - 1) : IsNaN(At(sma, k))
            /\ (period >= 1 /\ period <= N)
                 => \A k \in 0..(N - 1) :
                       IF k < period - 1 THEN IsNaN(At(sma, k))
                       ELSE /\ ~IsNaN(At(sma, k))
                            /\ At(sma, k).den > 0
                            /\ At(sma, k).num * period
                                 = WindowSum(prices, k - period + 1, k) * At(sma, k).den

\* a window that slid at least twice over prices that are not all equal
C7_Witness ==
    /\ pc = "done" /\ period >= 2 /\ period + 2 <= Len(prices)
    /\ ~Flat(prices)
    /\ IsNaN(At(sma, 0)) /\ ~IsNaN(At(sma, Len(prices) - 1))
    /\ At(sma, Len(prices) - 1) # At(sma, period - 1)

\* the run on the scenario prices with short = 2, long = 4, range [0, 8]
ScenarioRun ==
    prices = ScenarioPrices /\ s = 2 /\ l = 4 /\ argStart = 0 /\ argEnd = 8

\* C6 as stated: the scenario run forces startIdx to 1, buys nothing there, and
\* shows both a golden cross and a death cross inside the range.
C6_AsStated ==
    (ScenarioRun /\ pc = "done")
      => /\ startIdx = 1
         /\ \A k \in 1..Len(log) : log[k].idx # 1
         /\ \E k \in 1..8 : GoldenAt(k)
         /\ \E k \in 1..8 : DeathAt(k)

\* C6, amended: the scenario run forces startIdx to 1 and buys nothing there;
\* no index of the range shows a golden cross (at index 4, where the short
\* average rises above the long one, diffPrev is 0, not negative); index 6 and
\* no other shows a death cross; no trade happens and (INITIAL, 0) is returned.
C6_ScenarioNoGoldenCross ==
    ScenarioRun
      => /\ pc # "entry" => (startIdx = 1 /\ endIdx = 8)
         /\ \A k \in 1..8 : ~GoldenAt(k)
         /\ \A k \in 1..8 : DeathAt(k) <=> k = 6
         /\ ~IsNaN(DiffAt(3)) /\ DiffAt(3).num = 0 /\ Gt0(DiffAt(4))
         /\ cash = INITIAL /\ shares = 0 /\ trades = 0 /\ log = <<>>
         /\ pc = "done" => ret = SimResult(INITIAL, 0)

\* the scenario run, finished
C6_Witness ==
    ScenarioRun /\ pc = "done" /\ i = 9 /\ lastOp = "return" /\ startIdx = 1

\* C9: with positive prices, a step where the position is flat, a golden cross
\* holds and i # startIdx buys exactly floor(cash / prices[i]) shares, leaving
\* 0 <= cash < prices[i] and counting one trade; when that number is 0 nothing
\* changes.  cash >= 0 and shares >= 0 always.
C9_BuyMaxAffordable ==
    /\ [](cash >= 0 /\ shares >= 0)
    /\ [][(InLoopStep /\ shares = 0 /\ i # startIdx /\ GoldenAt(i))
            => LET price == At(prices, i)
                   b == cash \div price
               IN IF b > 0
                  THEN /\ shares' = b
                       /\ cash' = cash - b * price
                       /\ cash' >= 0 /\ cash' < price
                       /\ trades' = trades + 1
                  ELSE cash' = cash /\ shares' = shares /\ trades' = trades]_vars

\* a run that bought, leaving a remainder, sold at a loss, and then met a
\* golden cross at a price it could no longer afford
C9_Witness ==
    /\ lastOp = "nobuy" /\ shares = 0 /\ trades = 2
    /\ log[1].op = "buy" /\ log[2].op = "sell"
    /\ cash > 0 /\ cash < At(prices, i - 1)

Odd(n) == n % 2 = 1

BuysIn(lg) == Cardinality({k \in 1..Len(lg) : lg[k].op = "buy"})

SweepDone == pc = "grid" /\ s > MAXN

\* C8: one sweep collects, before ranking, exactly MAXN * MAXN results, exactly
\* one for each (s, l) in 1..MAXN x 1..MAXN, s = l included, for a degenerate
\* range as for any other.
C8_FullGrid ==
    /\ SweepDone
         => /\ Len(results) = MAXN * MAXN
            /\ \A a \in 1..MAXN : \A b \in 1..MAXN :
                  Cardinality({k \in 1..Len(results) :
                                  results[k].s = a /\ results[k].l = b}) = 1
    /\ (pc = "grid" /\ s <= MAXN) => Len(results) = (s - 1) * MAXN + (l - 1)

\* a finished sweep over a range in which some pair traded
C8_Witness ==
    /\ SweepDone /\ Len(results) = MAXN * MAXN
    /\ \E k \in 1..Len(results) : results[k].trades > 0
    /\ \E k \in 1..Len(results) : results[k].s = results[k].l
    /\ ~(Max(argStart, 0) >= Min(argEnd, Len(prices) - 1))

\* the ranking key, smaller first
RankKey(r) == <<0 - r.finalCapital, 0 - Abs(r.s - r.l), r.s, r.l>>

LexLess(x, y) ==
    \E k \in 1..4 : x[k] < y[k] /\ \A m \in 1..(k - 1) : x[m] = y[m]

\* the reorderings of 1..n, for every n a result set of the model can have
Reorderings ==
    [n \in 0..MaxResults |->
        {f \in [1..n -> 1..n] : \A a, b \in 1..n : a # b => f[a] # f[b]}]

====
